---- MODULE Spec2Model ----
(***************************************************************************)
(* A model of package keybind of xgbutil: the cache of the X server's      *)
(* keyboard and modifier mappings, its refresh on MappingNotify, and the   *)
(* resolver that turns binding strings such as "Mod4-j" into a             *)
(* (modifier mask, keycode) pair.                                          *)
(*                                                                         *)
(* Strings are sequences of one-character strings, so that Split, ToLower, *)
(* ToUpper and Title are computed character by character.                  *)
(***************************************************************************)
EXTENDS Integers, Sequences, FiniteSets, TLC

(***************************************************************************)
(* Bounds of the model.                                                    *)
(***************************************************************************)
\* the keycode range of the connection setup (X servers report min >= 8)
MinKeycode == 8
MaxKeycode == 10
\* the largest KeysymsPerKeycode of an enumerated keyboard mapping
MaxKeysymsPerKeycode == 2
\* the largest KeycodesPerModifier of an exhaustively enumerated modifier mapping
MaxKeycodesPerModifier == 2
\* a KeycodesPerModifier whose table has more than 255 slots (8 * 33 = 264)
WideKeycodesPerModifier == 33
\* the most tokens of an enumerated binding string
MaxTokens == 3
\* the most MappingNotify events the server sends in a run
MaxNotify == 2

(***************************************************************************)
(* Characters and the strings package.                                     *)
(***************************************************************************)
LowerLetters ==
    <<"a", "c", "d", "e", "f", "h", "i", "j", "k", "l", "m", "n", "o", "r",
      "s", "t", "u", "x", "y">>
UpperLetters ==
    <<"A", "C", "D", "E", "F", "H", "I", "J", "K", "L", "M", "N", "O", "R",
      "S", "T", "U", "X", "Y">>

LetterIndex(ch, letters) ==
    IF \E i \in DOMAIN letters : letters[i] = ch
    THEN CHOOSE i \in DOMAIN letters : letters[i] = ch
    ELSE 0

\* unicode.ToLower / unicode.ToUpper of one character
ToLowerChar(ch) ==
    IF LetterIndex(ch, UpperLetters) # 0
    THEN LowerLetters[LetterIndex(ch, UpperLetters)]
    ELSE ch
ToUpperChar(ch) ==
    IF LetterIndex(ch, LowerLetters) # 0
    THEN UpperLetters[LetterIndex(ch, LowerLetters)]
    ELSE ch

\* strings.ToLower, strings.ToUpper
ToLower(str) == [i \in 1..Len(str) |-> ToLowerChar(str[i])]
ToUpper(str) == [i \in 1..Len(str) |-> ToUpperChar(str[i])]

\* strings.Title's word boundary: anything but a letter, a digit or "_"
IsSeparator(ch) ==
    /\ LetterIndex(ch, LowerLetters) = 0
    /\ LetterIndex(ch, UpperLetters) = 0
    /\ ch \notin {"0", "1", "2", "3", "4", "5", "6", "7", "8", "9", "_"}

\* A Title that also lowers the letters after the first of a word
\* (what "title case" usually means; strings.Title does not do this).
TitleLoweringRest(str) ==
    [i \in 1..Len(str) |->
        IF i = 1 \/ IsSeparator(str[i - 1])
        THEN ToUpperChar(str[i])
        ELSE ToLowerChar(str[i])]

\* strings.Title: the first letter of every word is upper-cased, every other
\* character is kept as it is.
Title(str) ==
    [i \in 1..Len(str) |->
        IF i = 1 \/ IsSeparator(str[i - 1])
        THEN ToUpperChar(str[i])
        ELSE str[i]]

\* strings.Split(str, "-"): the pieces between the hyphens; one empty piece
\* for the empty string.
RECURSIVE SplitFrom(_, _, _, _)
SplitFrom(str, i, cur, acc) ==
    IF i > Len(str) THEN Append(acc, cur)
    ELSE IF str[i] = "-" THEN SplitFrom(str, i + 1, <<>>, Append(acc, cur))
    ELSE SplitFrom(str, i + 1, Append(cur, str[i]), acc)

Split(str) == SplitFrom(str, 1, <<>>, <<>>)

(***************************************************************************)
(* Modifier masks of package xgb.                                          *)
(***************************************************************************)
ModMaskShift == 1
ModMaskLock == 2
ModMaskControl == 4
ModMask1 == 8
ModMask2 == 16
ModMask3 == 32
ModMask4 == 64
ModMask5 == 128
ModMaskAny == 32768

\* var modifiers: order matters!
modifiers ==
    <<ModMaskShift, ModMaskLock, ModMaskControl,
      ModMask1, ModMask2, ModMask3, ModMask4, ModMask5,
      ModMaskAny>>

\* mods += bit in place of mods |= bit
BitAdd(mods, bit) == (mods + bit) % 65536

\* mods |= bit, for a mask bit (a power of two), in uint16
BitOr(mods, bit) ==
    IF (mods \div bit) % 2 = 1 THEN mods ELSE (mods + bit) % 65536

(***************************************************************************)
(* The symbol table keysyms (name -> keysym): an excerpt of the X keysym    *)
(* names.  "Return" has no other case variant in it; "j" and "J" are two    *)
(* names of two symbols, and so are "oe" and "OE".                          *)
(***************************************************************************)
XK_Return == 65293
XK_j == 106
XK_J == 74
XK_OE == 5052
XK_oe == 5053

NameReturn == <<"R", "e", "t", "u", "r", "n">>

keysyms ==
    (NameReturn :> XK_Return) @@ (<<"j">> :> XK_j) @@ (<<"J">> :> XK_J)
    @@ (<<"O", "E">> :> XK_OE) @@ (<<"o", "e">> :> XK_oe)

\* some name of the table, as lookupString's map accesses see it
HasName(str) == str \in DOMAIN keysyms

(***************************************************************************)
(* Replies of the server.  A keyboard mapping is                           *)
(* [gen, KeysymsPerKeycode, Keysyms], a modifier mapping is                *)
(* [gen, KeycodesPerModifier, Keycodes]; gen is the number of the refresh  *)
(* that fetched the reply (0: the nil pointer of an empty cache).  Keysyms *)
(* and Keycodes are Go slices, indexed from 0 in the code and from 1 here. *)
(***************************************************************************)
NilKeyMap == [gen |-> 0, KeysymsPerKeycode |-> 0, Keysyms |-> <<>>]
NilModMap == [gen |-> 0, KeycodesPerModifier |-> 0, Keycodes |-> <<>>]

\* the result of an operation that panics (index out of range, nil pointer)
Panics == 0 - 1
\* the result of an operation that has not returned yet
Pending == 0 - 2

\* minMaxKeycodeGet: the setup's keycode range
minMaxKeycodeGet == <<MinKeycode, MaxKeycode>>

\* mapsGet, line 46: the number of keycodes asked for, max - min + 1 in
\* bytes
KeycodeCount(min, max) == (max - min + 1) % 256

\* keysymGet, line 153: the index of a keycode's column, computed in ints
keysymIndex(min, n, keycode, column) == (keycode - min) * n + column

\* keysymGet: the symbol of a keycode in a column of the cached KeyCodeMap
keysymGet(km, keycode, column) ==
    LET min == minMaxKeycodeGet[1]
        i == keysymIndex(min, km.KeysymsPerKeycode, keycode, column)
    IN  IF km.gen = 0 \/ i < 0 \/ i >= Len(km.Keysyms)
        THEN Panics
        ELSE km.Keysyms[i + 1]

\* the two loops of keycodeGet, from keycode kc and column c on
RECURSIVE keycodeScan(_, _, _, _)
keycodeScan(km, keysym, kc, c) ==
    IF kc > minMaxKeycodeGet[2] THEN 0
    ELSE IF c >= km.KeysymsPerKeycode THEN keycodeScan(km, keysym, kc + 1, 0)
    ELSE LET got == keysymGet(km, kc % 256, c)
         IN  IF got = Panics THEN Panics
             ELSE IF keysym = got THEN kc % 256
             ELSE keycodeScan(km, keysym, kc, (c + 1) % 256)

\* keycodeGet with a scan that starts one keycode late
keycodeGetSkippingMin(km, keysym) ==
    IF km.gen = 0 THEN Panics
    ELSE keycodeScan(km, keysym, minMaxKeycodeGet[1] + 1, 0)

\* keycodeGet: the keycode mapped to a keysym in the cached KeyCodeMap
keycodeGet(km, keysym) ==
    IF km.gen = 0 THEN Panics
    ELSE keycodeScan(km, keysym, minMaxKeycodeGet[1], 0)

\* the "fancy case stuff" of lookupString: the name the symbol is found under,
\* [ok, sym]
CaseLookup(str) ==
    IF HasName(str) THEN [ok |-> TRUE, sym |-> keysyms[str]]
    ELSE IF HasName(Title(str)) THEN [ok |-> TRUE, sym |-> keysyms[Title(str)]]
    ELSE IF HasName(ToLower(str)) THEN [ok |-> TRUE, sym |-> keysyms[ToLower(str)]]
    ELSE IF HasName(ToUpper(str)) THEN [ok |-> TRUE, sym |-> keysyms[ToUpper(str)]]
    ELSE [ok |-> FALSE, sym |-> 0]

\* lookupString: the keycode of a key name
lookupString(km, str) ==
    LET found == CaseLookup(str)
    IN  IF ~found.ok THEN 0 ELSE keycodeGet(km, found.sym)

\* modGet's table row of a slot taken as the slot's column in its row
ModifierOfSlotByColumn(mm, i) ==
    IF mm.KeycodesPerModifier = 0 THEN Panics
    ELSE modifiers[(i % mm.KeycodesPerModifier) + 1]

\* modGet, line 166: modifiers[i / modMap.KeycodesPerModifier]
ModifierOfSlot(mm, i) ==
    IF mm.KeycodesPerModifier = 0
       \/ (i \div mm.KeycodesPerModifier) >= Len(modifiers)
    THEN Panics
    ELSE modifiers[(i \div mm.KeycodesPerModifier) + 1]

\* modGet, lines 164-170: one test of the loop condition and one run of the
\* body at slot i; [ret, i] with ret = Pending when the loop goes on.  i is a
\* byte, so i++ wraps at 256.
modGetStep(mm, keycode, i) ==
    IF i >= Len(mm.Keycodes) THEN [ret |-> 0, i |-> i]
    ELSE IF mm.Keycodes[i + 1] = keycode THEN [ret |-> ModifierOfSlot(mm, i), i |-> i]
    ELSE [ret |-> Pending, i |-> (i + 1) % 256]

\* the names the switch of ParseString compares the lowered token with
NameShift == <<"s", "h", "i", "f", "t">>
NameLock == <<"l", "o", "c", "k">>
NameControl == <<"c", "o", "n", "t", "r", "o", "l">>
NameMod1 == <<"m", "o", "d", "1">>
NameMod2 == <<"m", "o", "d", "2">>
NameMod3 == <<"m", "o", "d", "3">>
NameMod4 == <<"m", "o", "d", "4">>
NameMod5 == <<"m", "o", "d", "5">>
NameAny == <<"a", "n", "y">>

\* the switch of ParseString: the bit of a lowered token, 0 in the default case
SwitchBit(lowered) ==
    CASE lowered = NameShift -> ModMaskShift
      [] lowered = NameLock -> ModMaskLock
      [] lowered = NameControl -> ModMaskControl
      [] lowered = NameMod1 -> ModMask1
      [] lowered = NameMod2 -> ModMask2
      [] lowered = NameMod3 -> ModMask3
      [] lowered = NameMod4 -> ModMask4
      [] lowered = NameMod5 -> ModMask5
      [] lowered = NameAny -> ModMaskAny
      [] OTHER -> 0

\* the default case with the lookup done for every key token, the last one
\* winning
NextKeycodeLastWins(km, kc, part) == lookupString(km, part)

\* the default case of the switch: only accept the first keycode we see
NextKeycode(km, kc, part) ==
    IF kc = 0 THEN lookupString(km, part) ELSE kc

\* a warning for every string
WarnsAlways(kc) == TRUE

\* the condition of the warning ParseString logs
Warns(kc) == kc = 0

\* the loop of ParseString over the parts, from part n on
RECURSIVE ParseParts(_, _, _, _, _)
ParseParts(km, parts, n, mods, kc) ==
    IF kc = Panics THEN [mods |-> 0, kc |-> Panics, warned |-> FALSE]
    ELSE IF n > Len(parts) THEN [mods |-> mods, kc |-> kc, warned |-> Warns(kc)]
    ELSE LET bit == SwitchBit(ToLower(parts[n]))
         IN  IF bit # 0
             THEN ParseParts(km, parts, n + 1, BitOr(mods, bit), kc)
             ELSE ParseParts(km, parts, n + 1, mods, NextKeycode(km, kc, parts[n]))

\* ParseString: [mods, kc, warned] of a binding string
ParseString(km, str) == ParseParts(km, Split(str), 1, 0, 0)

(***************************************************************************)
(* The server, the cache of the connection (xu), the calls of Initialize   *)
(* and updateMaps, and the last call of the resolver.                      *)
(***************************************************************************)
VARIABLES
    srvKeyMap,   \* the server's keyboard mapping [KeysymsPerKeycode, Keysyms]
    srvModMap,   \* the server's modifier mapping [KeycodesPerModifier, Keycodes]
    sent,        \* the number of MappingNotify events the server has sent
    events,      \* the MappingNotify events not yet dispatched, oldest first
    connected,   \* updateMaps is connected as the MappingNotify callback
    keyMap,      \* the cached keyboard mapping (xu.KeyMapGet)
    modMap,      \* the cached modifier mapping (xu.ModMapGet)
    pc,          \* where each call of Initialize (0) and updateMaps (1..) stands
    newKeymap,   \* mapsGet's newKeymap of each call
    newModmap,   \* mapsGet's newModmap of each call
    keyErr,      \* mapsGet's keyErr # nil of each call
    modErr,      \* mapsGet's modErr # nil of each call
    event,       \* updateMaps' argument e of each call
    call         \* the last resolver call: [op, arg, ret]

vars ==
    <<srvKeyMap, srvModMap, sent, events, connected, keyMap, modMap, pc,
      newKeymap, newModmap, keyErr, modErr, event, call>>

serverVars == <<srvKeyMap, srvModMap, sent, events>>
cacheVars == <<keyMap, modMap>>
localVars == <<newKeymap, newModmap, keyErr, modErr, event>>

\* call 0 is Initialize, call h >= 1 is the h-th call of updateMaps
Handlers == 0..MaxNotify

\* the number of keycodes of the setup's range
KeycodeRange == MaxKeycode - MinKeycode + 1

\* the key symbols of the enumerated keyboard mappings (0: NoSymbol)
Syms == {0, XK_j, XK_Return}

\* a keyboard mapping of the server with the given columns: keycode
\* MinKeycode + k carries cells[k * n + 1 .. k * n + n]
Keyboard(n, cells) == [KeysymsPerKeycode |-> n, Keysyms |-> cells]

\* two keyboards the server switches between: one of two columns with j/J on
\* the first key and Return on the second, one of one column with Return first
KeyboardTwoColumns ==
    Keyboard(2, [i \in 1..(KeycodeRange * 2) |->
                    IF i = 1 THEN XK_j ELSE IF i = 2 THEN XK_J
                    ELSE IF i = 3 THEN XK_Return ELSE 0])
KeyboardOneColumn ==
    Keyboard(1, [i \in 1..KeycodeRange |-> IF i = 1 THEN XK_Return ELSE XK_j])
SrvKeyMaps == {KeyboardTwoColumns, KeyboardOneColumn}

\* a modifier mapping of n keycodes per modifier, slot s (from 0) holding
\* bind[s] for the slots of DOMAIN bind and 0 (unbound) elsewhere
Modifiers(n, bind) ==
    [KeycodesPerModifier |-> n,
     Keycodes |-> [i \in 1..(8 * n) |->
                      IF (i - 1) \in DOMAIN bind THEN bind[i - 1] ELSE 0]]

\* two modifier mappings the server switches between
ModifiersOnePerRow == Modifiers(1, (0 :> MinKeycode) @@ (2 :> MaxKeycode))
ModifiersTwoPerRow == Modifiers(2, (1 :> MaxKeycode) @@ (6 :> MinKeycode))
SrvModMaps == {ModifiersOnePerRow, ModifiersTwoPerRow}

\* the reply of GetKeyboardMapping(first, count) as refresh gen receives it;
\* count is a byte
GetKeyboardMapping(srv, first, count, gen) ==
    LET n == srv.KeysymsPerKeycode
        from == (first - MinKeycode) * n
    IN  [gen |-> gen,
         KeysymsPerKeycode |-> n,
         Keysyms |-> SubSeq(srv.Keysyms, from + 1, from + (count % 256) * n)]

\* the reply of GetModifierMapping as refresh gen receives it
GetModifierMapping(srv, gen) ==
    [gen |-> gen,
     KeycodesPerModifier |-> srv.KeycodesPerModifier,
     Keycodes |-> srv.Keycodes]

NoCall == [op |-> "none", arg |-> 0, ret |-> 0]

\* the argument of a call that has no event: Initialize, or a call of
\* updateMaps that has not started or has returned
NoEvent == [Request |-> "none", FirstKeycode |-> 0, Count |-> 0]

\* the MappingNotify events a change of the keyboard mapping is announced
\* with: the whole range of keycodes, or the last keycode only
KeyboardEvents ==
    {[Request |-> "Keyboard", FirstKeycode |-> MinKeycode, Count |-> KeycodeRange],
     [Request |-> "Keyboard", FirstKeycode |-> MaxKeycode, Count |-> 1]}

\* the MappingNotify event of a change of the modifier mapping
ModifierEvent == [Request |-> "Modifier", FirstKeycode |-> 0, Count |-> 0]

Init ==
    /\ srvKeyMap \in SrvKeyMaps
    /\ srvModMap \in SrvModMaps
    /\ sent = 0
    /\ events = <<>>
    /\ connected = FALSE
    /\ keyMap = NilKeyMap
    /\ modMap = NilModMap
    /\ pc = [h \in Handlers |-> "idle"]
    /\ newKeymap = [h \in Handlers |-> NilKeyMap]
    /\ newModmap = [h \in Handlers |-> NilModMap]
    /\ keyErr = [h \in Handlers |-> FALSE]
    /\ modErr = [h \in Handlers |-> FALSE]
    /\ event = [h \in Handlers |-> NoEvent]
    /\ call = NoCall

\* a panic of mapsGet ends the program
Crashed == \E h \in Handlers : pc[h] = "panicked"

\* the calls that have started and not returned
Running == {h \in Handlers : pc[h] \notin {"idle", "done", "panicked"}}

\* The server's mapping changes (a client ran xmodmap): it sends MappingNotify.
ServerChange ==
    /\ sent < MaxNotify
    /\ \/ /\ srvKeyMap' \in SrvKeyMaps
          /\ srvModMap' = srvModMap
          /\ \E e \in KeyboardEvents : events' = Append(events, e)
       \/ /\ srvModMap' \in SrvModMaps
          /\ srvKeyMap' = srvKeyMap
          /\ events' = Append(events, ModifierEvent)
    /\ sent' = sent + 1
    /\ UNCHANGED <<connected, cacheVars, pc, localVars, call>>

\* Initialize that goes on to mapsGet without connecting updateMaps
InitializeWithoutConnect ==
    /\ pc[0] = "idle"
    /\ pc' = [pc EXCEPT ![0] = "called"]
    /\ UNCHANGED <<serverVars, connected, cacheVars, localVars, call>>

\* Initialize, line 25: connect updateMaps to MappingNotify
InitializeConnect ==
    /\ pc[0] = "idle"
    /\ connected' = TRUE
    /\ pc' = [pc EXCEPT ![0] = "called"]
    /\ UNCHANGED <<serverVars, cacheVars, localVars, call>>

\* a dispatcher that hands out an event while a callback is still running
MayDispatchAnytime == TRUE

\* the event loop delivers one notification at a time: the next callback runs
\* when the one before has returned
MayDispatch == Running = {}

\* the event loop (xevent.Main, entered after Initialize has returned) takes
\* the oldest event and calls the connected callback, updateMaps
Dispatch(h) ==
    /\ h >= 1
    /\ ~Crashed
    /\ pc[0] = "done"
    /\ connected
    /\ MayDispatch
    /\ events # <<>>
    /\ pc[h] = "idle"
    /\ \A g \in 1..(h - 1) : pc[g] # "idle"
    /\ events' = Tail(events)
    /\ event' = [event EXCEPT ![h] = Head(events)]
    /\ pc' = [pc EXCEPT ![h] = "called"]
    /\ UNCHANGED <<srvKeyMap, srvModMap, sent, connected, cacheVars, newKeymap,
                   newModmap, keyErr, modErr, call>>

\* mapsGet, line 46: GetKeyboardMapping(min, max - min + 1); the request may fail
MapsGetKeyboard(h) ==
    /\ ~Crashed
    /\ pc[h] = "called"
    /\ \E err \in BOOLEAN :
          /\ keyErr' = [keyErr EXCEPT ![h] = err]
          /\ newKeymap' =
                [newKeymap EXCEPT ![h] =
                    IF err THEN NilKeyMap
                    ELSE GetKeyboardMapping(srvKeyMap, minMaxKeycodeGet[1],
                            KeycodeCount(minMaxKeycodeGet[1], minMaxKeycodeGet[2]),
                            h + 1)]
    /\ pc' = [pc EXCEPT ![h] = "gotkey"]
    /\ UNCHANGED <<serverVars, connected, cacheVars, newModmap, modErr, event, call>>

\* mapsGet that panics on a failed keyboard query only
MapsGetPanicsOnKeyErrOnly(kErr, mErr) == kErr

\* mapsGet, lines 51-60: panic if either query failed
MapsGetPanics(kErr, mErr) == kErr \/ mErr

\* mapsGet, lines 47-62: GetModifierMapping, then the two error checks
MapsGetModifier(h) ==
    /\ ~Crashed
    /\ pc[h] = "gotkey"
    /\ \E err \in BOOLEAN :
          /\ modErr' = [modErr EXCEPT ![h] = err]
          /\ newModmap' =
                [newModmap EXCEPT ![h] =
                    IF err THEN NilModMap
                    ELSE GetModifierMapping(srvModMap, h + 1)]
          /\ pc' = [pc EXCEPT ![h] =
                        IF MapsGetPanics(keyErr[h], err) THEN "panicked"
                        ELSE "fetched"]
    /\ UNCHANGED <<serverVars, connected, cacheVars, newKeymap, keyErr, event, call>>

\* updateMaps that installs the keyboard mapping only when its event
\* announces a change of the keyboard mapping
KeyMapSetOnKeyboardRequest(h) ==
    /\ ~Crashed
    /\ pc[h] = "fetched"
    /\ keyMap' = IF event[h].Request = "Modifier" THEN keyMap ELSE newKeymap[h]
    /\ pc' = [pc EXCEPT ![h] = "keyset"]
    /\ UNCHANGED <<serverVars, connected, modMap, localVars, call>>

\* Initialize line 29, updateMaps line 35: xu.KeyMapSet(keyMap)
KeyMapSet(h) ==
    /\ ~Crashed
    /\ pc[h] = "fetched"
    /\ keyMap' = newKeymap[h]
    /\ pc' = [pc EXCEPT ![h] = "keyset"]
    /\ UNCHANGED <<serverVars, connected, modMap, localVars, call>>

\* updateMaps that returns without installing the modifier mapping
ModMapSetReturnsOnly(h) ==
    /\ ~Crashed
    /\ pc[h] = "keyset"
    /\ event' = [event EXCEPT ![h] = NoEvent]
    /\ pc' = [pc EXCEPT ![h] = "done"]
    /\ UNCHANGED <<serverVars, connected, cacheVars, newKeymap, newModmap,
                   keyErr, modErr, call>>

\* Initialize line 30, updateMaps line 36: xu.ModMapSet(modMap), and return;
\* the argument e is gone with the call
ModMapSet(h) ==
    /\ ~Crashed
    /\ pc[h] = "keyset"
    /\ modMap' = newModmap[h]
    /\ event' = [event EXCEPT ![h] = NoEvent]
    /\ pc' = [pc EXCEPT ![h] = "done"]
    /\ UNCHANGED <<serverVars, connected, keyMap, newKeymap, newModmap,
                   keyErr, modErr, call>>

\* names for the rows with lock and control in each other's place
niceLockAfterControl ==
    <<<<"s", "h", "i", "f", "t">>, <<"c", "o", "n", "t", "r", "o", "l">>,
      <<"l", "o", "c", "k">>, <<"m", "o", "d", "1">>,
      <<"m", "o", "d", "2">>, <<"m", "o", "d", "3">>, <<"m", "o", "d", "4">>,
      <<"m", "o", "d", "5">>>>

\* XModMap, lines 182-184: the names the rows are printed under
nice ==
    <<<<"s", "h", "i", "f", "t">>, <<"l", "o", "c", "k">>,
      <<"c", "o", "n", "t", "r", "o", "l">>, <<"m", "o", "d", "1">>,
      <<"m", "o", "d", "2">>, <<"m", "o", "d", "3">>, <<"m", "o", "d", "4">>,
      <<"m", "o", "d", "5">>>>

\* XModMap is called on another goroutine once Initialize has returned,
\* lines 177-179: modMap is read once
XModMapCall ==
    /\ ~Crashed
    /\ pc[0] = "done"
    /\ call.op = "none"
    /\ call' = [op |-> "XModMap", arg |-> 0, mm |-> modMap, slot |-> 0,
                col |-> 0, kmGen |-> 0, out |-> <<>>, ret |-> Pending]
    /\ UNCHANGED <<serverVars, connected, cacheVars, pc, localVars>>

\* XModMap, lines 188-211: the loops stand at slot call.slot of the modifier
\* table read at the start; a bound keycode is looked up with keysymGet, which
\* reads the cached keyboard mapping anew (line 152), in column 0 and then,
\* if that gave 0, in column 1; what is printed is appended to call.out
XModMapLoop ==
    /\ ~Crashed
    /\ call.op = "XModMap"
    /\ call.ret = Pending
    /\ LET kPerMod == call.mm.KeycodesPerModifier
           kc == call.mm.Keycodes[call.slot + 1]
           ksym == keysymGet(keyMap, kc, call.col)
       IN  IF call.slot >= (Len(modifiers) - 1) * kPerMod
           THEN call' = [call EXCEPT !.ret = 0]
           ELSE IF kc = 0
           THEN call' = [call EXCEPT !.slot = call.slot + 1]
           ELSE IF ksym = Panics
           THEN call' = [call EXCEPT !.ret = Panics, !.kmGen = keyMap.gen]
           ELSE IF ksym = 0 /\ call.col = 0
           THEN call' = [call EXCEPT !.col = 1, !.kmGen = keyMap.gen]
           ELSE call' = [call EXCEPT
                            !.out = Append(call.out,
                                       [row |-> call.slot \div kPerMod,
                                        name |-> nice[(call.slot \div kPerMod) + 1],
                                        ksym |-> ksym, kc |-> kc]),
                            !.slot = call.slot + 1,
                            !.col = 0,
                            !.kmGen = keyMap.gen]
    /\ UNCHANGED <<serverVars, connected, cacheVars, pc, localVars>>

\* keycodeGet is called on another goroutine once Initialize has returned,
\* lines 133-137: the cached keyboard mapping is read once, for the bound of
\* the column loop, and the scan starts at the first keycode
KeycodeGetStart ==
    /\ ~Crashed
    /\ pc[0] = "done"
    /\ call.op = "none"
    /\ \E keysym \in {XK_J, XK_Return} :
          call' = [op |-> "keycodeGetScan", arg |-> keysym, km |-> keyMap,
                   kc |-> minMaxKeycodeGet[1], c |-> 0, cellGens |-> {},
                   ret |-> Pending]
    /\ UNCHANGED <<serverVars, connected, cacheVars, pc, localVars>>

\* keycodeGet, lines 137-144: one test of a loop condition; the cell is read by
\* keysymGet, which reads the cached keyboard mapping anew (line 152), while
\* the column bound is the one of the mapping read at the start;
\* call.cellGens collects the refreshes whose tables a cell was read from
KeycodeGetLoop ==
    /\ ~Crashed
    /\ call.op = "keycodeGetScan"
    /\ call.ret = Pending
    /\ LET got == keysymGet(keyMap, call.kc % 256, call.c)
           read == call.cellGens \cup {keyMap.gen}
       IN  IF call.kc > minMaxKeycodeGet[2]
           THEN call' = [call EXCEPT !.ret = 0]
           ELSE IF call.c >= call.km.KeysymsPerKeycode
           THEN call' = [call EXCEPT !.kc = call.kc + 1, !.c = 0]
           ELSE IF got = Panics
           THEN call' = [call EXCEPT !.ret = Panics, !.cellGens = read]
           ELSE IF call.arg = got
           THEN call' = [call EXCEPT !.ret = call.kc % 256, !.cellGens = read]
           ELSE call' = [call EXCEPT !.c = (call.c + 1) % 256, !.cellGens = read]
    /\ UNCHANGED <<serverVars, connected, cacheVars, pc, localVars>>

Next ==
    \/ ServerChange
    \/ InitializeConnect
    \/ \E h \in Handlers : Dispatch(h)
    \/ \E h \in Handlers : MapsGetKeyboard(h)
    \/ \E h \in Handlers : MapsGetModifier(h)
    \/ \E h \in Handlers : KeyMapSet(h)
    \/ \E h \in Handlers : ModMapSet(h)
    \/ XModMapCall
    \/ XModMapLoop
    \/ KeycodeGetStart
    \/ KeycodeGetLoop

Spec == Init /\ [][Next]_vars

\* the next step of a call of Initialize or updateMaps that has started
RefreshStep ==
    \E h \in Handlers :
        MapsGetKeyboard(h) \/ MapsGetModifier(h) \/ KeyMapSet(h) \/ ModMapSet(h)

\* a call of Initialize or updateMaps that has started goes on to its end:
\* its goroutine is scheduled, each query is answered with a reply or an
\* error, and the two setters do not block
RefreshGoesOn == WF_vars(RefreshStep)

SpecFair == Init /\ [][Next]_vars /\ RefreshGoesOn

(***************************************************************************)
(* The resolver on its own: the state after Initialize has returned, for   *)
(* every table or string of a bounded set, and one resolver call.          *)
(***************************************************************************)
\* the state in which Initialize has installed the server's tables km and mm
Ready(km, mm) ==
    /\ srvKeyMap = km
    /\ srvModMap = mm
    /\ sent = 0
    /\ events = <<>>
    /\ connected = TRUE
    /\ keyMap = GetKeyboardMapping(km, MinKeycode, KeycodeRange, 1)
    /\ modMap = GetModifierMapping(mm, 1)
    /\ pc = [h \in Handlers |-> IF h = 0 THEN "done" ELSE "idle"]
    /\ newKeymap = [h \in Handlers |-> IF h = 0 THEN keyMap ELSE NilKeyMap]
    /\ newModmap = [h \in Handlers |-> IF h = 0 THEN modMap ELSE NilModMap]
    /\ keyErr = [h \in Handlers |-> FALSE]
    /\ modErr = [h \in Handlers |-> FALSE]
    /\ event = [h \in Handlers |-> NoEvent]
    /\ call = NoCall

systemVars ==
    <<srvKeyMap, srvModMap, sent, events, connected, keyMap, modMap, pc,
      newKeymap, newModmap, keyErr, modErr, event>>

\* every keyboard mapping of 1..MaxKeysymsPerKeycode columns over Syms
AllKeyMaps ==
    UNION {{Keyboard(n, cells) : cells \in [1..(KeycodeRange * n) -> Syms]} :
             n \in 1..MaxKeysymsPerKeycode}

\* the keycodes a slot of an enumerated modifier mapping holds (0: unbound)
SlotKeycodes == {0, MinKeycode, MaxKeycode}

\* the modifier mappings of n keycodes per modifier with at most two bound
\* slots, both among slots
ModMapsOf(n, slots) ==
    {Modifiers(n, (s1 :> k1) @@ (s2 :> k2)) :
        s1 \in slots, s2 \in slots, k1 \in SlotKeycodes, k2 \in SlotKeycodes}

\* the slots tried in a table of more than 255 slots: the first two, the last
\* a byte reaches, the first it does not reach, and the last of the table
WideSlots == {0, 1, 255, 256, 8 * WideKeycodesPerModifier - 1}

AllModMaps ==
    UNION {ModMapsOf(n, 0..(8 * n - 1)) : n \in 0..MaxKeycodesPerModifier}
    \cup {[KeycodesPerModifier |-> 0, Keycodes |-> <<>>]}
    \cup ModMapsOf(WideKeycodesPerModifier, WideSlots)

\* the keycodes modGet is asked about
AskedKeycodes == {0} \cup (MinKeycode..MaxKeycode)

\* the tokens of the enumerated binding strings: the nine modifier names, a
\* modifier in mixed case, two key names, an unknown name and the empty token
Tokens ==
    {NameShift, NameLock, NameControl, NameMod1, NameMod2, NameMod3, NameMod4,
     NameMod5, NameAny, <<"M", "o", "d", "4">>,
     <<"j">>, NameReturn, <<"x">>, <<>>}

TokenLists == UNION {[1..n -> Tokens] : n \in 0..MaxTokens}

\* the binding string of a list of tokens: the tokens with "-" between them
RECURSIVE Join(_)
Join(toks) ==
    IF Len(toks) = 0 THEN <<>>
    ELSE IF Len(toks) = 1 THEN toks[1]
    ELSE toks[1] \o <<"-">> \o Join(Tail(toks))

\* the names lookupString is asked about
AskedNames ==
    {NameReturn, ToLower(NameReturn), ToUpper(NameReturn),
     <<"r", "E", "t", "U", "r", "N">>, <<"j">>, <<"J">>, <<"x">>, <<"X">>, <<>>,
     <<"o", "e">>, <<"O", "E">>, <<"O", "e">>, <<"o", "E">>}

KeycodeGetCall ==
    /\ call.op = "none"
    /\ \E sym \in Syms \cup {XK_J} :
          call' = [op |-> "keycodeGet", arg |-> sym, ret |-> keycodeGet(keyMap, sym)]
    /\ UNCHANGED systemVars

\* modGet is called, lines 161-163: modMap is read once, i starts at 0
ModGetCall ==
    /\ call.op = "none"
    /\ \E keycode \in AskedKeycodes :
          call' = [op |-> "modGet", arg |-> keycode, mm |-> modMap, i |-> 0,
                   ret |-> IF modMap.gen = 0 THEN Panics ELSE Pending]
    /\ UNCHANGED systemVars

\* one iteration of modGet's loop
ModGetLoop ==
    /\ call.op = "modGet"
    /\ call.ret = Pending
    /\ LET step == modGetStep(call.mm, call.arg, call.i)
       IN  call' = [call EXCEPT !.i = step.i, !.ret = step.ret]
    /\ UNCHANGED systemVars

LookupStringCall ==
    /\ call.op = "none"
    /\ \E name \in AskedNames :
          call' = [op |-> "lookupString", arg |-> name,
                   ret |-> lookupString(keyMap, name)]
    /\ UNCHANGED systemVars

\* the caller joins a list of tokens into a binding string and parses it
ParseStringCall ==
    /\ call.op = "none"
    /\ \E toks \in TokenLists :
          call' = [op |-> "ParseString", arg |-> toks,
                   ret |-> ParseString(keyMap, Join(toks))]
    /\ UNCHANGED systemVars

InitKey == \E km \in AllKeyMaps : Ready(km, ModifiersOnePerRow)
NextKey == KeycodeGetCall
SpecKey == InitKey /\ [][NextKey]_vars

InitMod == \E mm \in AllModMaps : Ready(KeyboardTwoColumns, mm)
NextMod == ModGetCall \/ ModGetLoop
SpecMod == InitMod /\ [][NextMod]_vars

\* a call of modGet that has started keeps running: its loop has no blocking
\* step
SpecModFair == InitMod /\ [][NextMod]_vars /\ WF_vars(ModGetLoop)

\* the dump on its own: every keyboard mapping, no refresh under way
InitDump == \E km \in AllKeyMaps : \E mm \in SrvModMaps : Ready(km, mm)
NextDump == XModMapCall \/ XModMapLoop
SpecDump == InitDump /\ [][NextDump]_vars

(***************************************************************************)
(* The refresh and the scan of keycodeGet for other keycode ranges of the  *)
(* setup than MinKeycode..MaxKeycode: the range is [min, max], the server  *)
(* has n symbols for each keycode of it and none matches the symbol asked  *)
(* for, and the reply is recorded by the number of its symbols.            *)
(***************************************************************************)
\* the ends of the ranges tried: the least and the greatest byte, their
\* neighbours, and the least keycode of an X server
SetupKeycodes == {0, 1, 8, 254, 255}

\* mapsGet, lines 45-46, for a setup with the range [min, max]: the server
\* answers a request for count keycodes with count * n symbols; then
\* keycodeGet is called, lines 133-137
SetupRefreshCall ==
    /\ call.op = "none"
    /\ \E min \in SetupKeycodes, max \in SetupKeycodes,
          n \in 1..MaxKeysymsPerKeycode :
          /\ min <= max
          /\ call' = [op |-> "keycodeGetRange",
                      arg |-> [min |-> min, max |-> max],
                      count |-> KeycodeCount(min, max),
                      KeysymsPerKeycode |-> n,
                      len |-> KeycodeCount(min, max) * n,
                      kc |-> min, c |-> 0, ret |-> Pending]
    /\ UNCHANGED systemVars

\* keycodeGet, lines 137-144, and keysymGet, lines 153-155, over that reply:
\* one test of a loop condition; an index outside the reply panics
SetupScanLoop ==
    /\ call.op = "keycodeGetRange"
    /\ call.ret = Pending
    /\ LET i == keysymIndex(call.arg.min, call.KeysymsPerKeycode,
                            call.kc % 256, call.c)
       IN  IF call.kc > call.arg.max
           THEN call' = [call EXCEPT !.ret = 0]
           ELSE IF call.c >= call.KeysymsPerKeycode
           THEN call' = [call EXCEPT !.kc = call.kc + 1, !.c = 0]
           ELSE IF i < 0 \/ i >= call.len
           THEN call' = [call EXCEPT !.ret = Panics]
           ELSE call' = [call EXCEPT !.c = (call.c + 1) % 256]
    /\ UNCHANGED systemVars

InitSetup == Ready(KeyboardTwoColumns, ModifiersOnePerRow)
NextSetup == SetupRefreshCall \/ SetupScanLoop
SpecSetup == InitSetup /\ [][NextSetup]_vars

(***************************************************************************)
(* Package xgraphics: FindBestIcon.  An icon is [Width, Height]; the       *)
(* result is the index of the icon returned (from 0), NilIcon for nil.     *)
(***************************************************************************)
MaxIconSide == 2
MaxIcons == 3

NilIcon == 0 - 1

\* an icon replaces the best one whenever it is bigger
BetterWhenBigger(parea, bestArea, iconArea) == iconArea > bestArea

\* FindBestIcon, lines 324-325: whether the icon replaces the best so far
Better(parea, bestArea, iconArea) ==
    \/ iconArea >= parea /\ iconArea <= bestArea
    \/ bestArea < parea /\ iconArea > bestArea

\* FindBestIcon, lines 310-328: the loop from icon i on (from 0), best so far
RECURSIVE bestFrom(_, _, _, _)
bestFrom(parea, icons, best, i) ==
    IF i >= Len(icons) THEN best
    ELSE IF best = 0 - 1 THEN bestFrom(parea, icons, i, i + 1)
    ELSE LET bestArea == icons[best + 1].Width * icons[best + 1].Height
             iconArea == icons[i + 1].Width * icons[i + 1].Height
         IN  bestFrom(parea, icons,
                      IF Better(parea, bestArea, iconArea) THEN i ELSE best,
                      i + 1)

\* FindBestIcon, lines 299-334
FindBestIcon(width, height, icons) ==
    IF Len(icons) = 0 THEN NilIcon
    ELSE LET best == bestFrom(width * height, icons, 0 - 1, 0)
         IN  IF best > 0 - 1 THEN best ELSE NilIcon

\* the icons and the lists of icons FindBestIcon is called with
Icons == [Width : 1..MaxIconSide, Height : 1..MaxIconSide]
IconLists == UNION {[1..n -> Icons] : n \in 0..MaxIcons}

FindBestIconCall ==
    /\ call.op = "none"
    /\ \E width \in 1..MaxIconSide, height \in 1..MaxIconSide, icons \in IconLists :
          call' = [op |-> "FindBestIcon",
                   arg |-> [width |-> width, height |-> height, icons |-> icons],
                   ret |-> FindBestIcon(width, height, icons)]
    /\ UNCHANGED systemVars

InitIcon == Ready(KeyboardTwoColumns, ModifiersOnePerRow)
NextIcon == FindBestIconCall
SpecIcon == InitIcon /\ [][NextIcon]_vars

(***************************************************************************)
(* Package xgraphics: CreatePixmap.  The image data is width*height*4      *)
(* bytes, row after row; a PutImage request is recorded with the bytes     *)
(* [from, to) of the data it carries and the arguments that place them.    *)
(***************************************************************************)
MaxImageHeight == 8

\* xgbutil.MAX_REQ_SIZE, (2^16) * 4, and the fixed size of a PutImage request
MAX_REQ_SIZE == 262144
PutImageFixed == 28

\* the conversions uint16(x) and int16(x) of an int
ToUint16(x) == x % 65536
ToInt16(x) == IF x % 65536 >= 32768 THEN (x % 65536) - 65536 ELSE x % 65536

\* the widths of the images CreatePixmap is called with: a single pixel, a
\* row of a few hundred bytes, rows of which three, two and one fit in a
\* request, and the widest row that fits
ImageWidths == {1, 100, 20000, 30000, 40000, 65529}

\* CreatePixmap, lines 131-163: the image data, sends and rowsPer, and the
\* loop variables before the first iteration
CreatePixmapCall ==
    /\ call.op = "none"
    /\ \E width \in ImageWidths, height \in 1..MaxImageHeight :
          LET imgDataLen == width * height * 4
          IN  call' = [op |-> "CreatePixmap",
                       arg |-> [width |-> width, height |-> height],
                       imgDataLen |-> imgDataLen,
                       sends |-> (imgDataLen \div (MAX_REQ_SIZE - PutImageFixed)) + 1,
                       rowsPer |-> (MAX_REQ_SIZE - PutImageFixed) \div (width * 4),
                       i |-> 0, ypos |-> 0, startBytes |-> 0,
                       requests |-> <<>>, ret |-> Pending]
    /\ UNCHANGED systemVars

\* CreatePixmap, lines 165-193: one iteration of the loop (one PutImage
\* request), or the return once i has reached sends
PutImageLoop ==
    /\ call.op = "CreatePixmap"
    /\ call.ret = Pending
    /\ LET width == call.arg.width
           whole == call.startBytes + call.rowsPer * width * 4
           endBytes == IF whole > call.imgDataLen THEN call.imgDataLen ELSE whole
           h == ((endBytes - call.startBytes) \div 4) \div width
       IN  IF call.i >= call.sends
           THEN call' = [call EXCEPT !.ret = 0]
           ELSE call' = [call EXCEPT
                            !.requests = Append(call.requests,
                                            [width |-> ToUint16(width),
                                             height |-> ToUint16(h),
                                             dstY |-> ToInt16(call.ypos),
                                             from |-> call.startBytes,
                                             to |-> endBytes]),
                            !.startBytes = endBytes,
                            !.ypos = call.ypos + call.rowsPer,
                            !.i = call.i + 1]
    /\ UNCHANGED systemVars

InitPixmap == Ready(KeyboardTwoColumns, ModifiersOnePerRow)
NextPixmap == CreatePixmapCall \/ PutImageLoop
SpecPixmap == InitPixmap /\ [][NextPixmap]_vars

\* lookupString on its own: every one-column keyboard mapping over the
\* symbols of names that have more than one case variant in the table
LigatureSyms == {0, XK_OE, XK_oe, XK_Return}
LigatureKeyMaps == {Keyboard(1, cells) : cells \in [1..KeycodeRange -> LigatureSyms]}
InitLookup == \E km \in LigatureKeyMaps : Ready(km, ModifiersOnePerRow)
NextLookup == LookupStringCall
SpecLookup == InitLookup /\ [][NextLookup]_vars

InitParse == \E km \in SrvKeyMaps : Ready(km, ModifiersOnePerRow)
NextParse == ParseStringCall \/ LookupStringCall
SpecParse == InitParse /\ [][NextParse]_vars

(***************************************************************************)
(* What the claims say about ParseString and lookupString, stated over the *)
(* tokens the caller joined and not over ParseString's own loop.           *)
(***************************************************************************)
\* two strings that differ in the case of their letters at most
EqualFold(a, b) ==
    /\ Len(a) = Len(b)
    /\ \A i \in 1..Len(a) : ToUpperChar(a[i]) = ToUpperChar(b[i])

\* the modifier names and their bits
ModifierNameBits ==
    {<<NameShift, ModMaskShift>>, <<NameLock, ModMaskLock>>,
     <<NameControl, ModMaskControl>>, <<NameMod1, ModMask1>>,
     <<NameMod2, ModMask2>>, <<NameMod3, ModMask3>>, <<NameMod4, ModMask4>>,
     <<NameMod5, ModMask5>>, <<NameAny, ModMaskAny>>}

IsModifierToken(tok) == \E nb \in ModifierNameBits : EqualFold(tok, nb[1])

RECURSIVE SumOf(_)
SumOf(set) ==
    IF set = {} THEN 0
    ELSE LET x == CHOOSE y \in set : TRUE IN x + SumOf(set \ {x})

\* the mask of a list of tokens: the bits of the modifier names that occur
MaskOfTokens(toks) ==
    SumOf({nb[2] : nb \in {mb \in ModifierNameBits :
                              \E i \in 1..Len(toks) : EqualFold(toks[i], mb[1])}})

\* the tokens of a list that are no modifier names, in order
KeyTokens(toks) == SelectSeq(toks, LAMBDA tok : ~IsModifierToken(tok))

\* the key tokens that resolve to a keycode other than 0, in order
ResolvingKeyTokens(km, toks) ==
    SelectSeq(KeyTokens(toks), LAMBDA tok : lookupString(km, tok) # 0)

\* C1 as claimed: the keycode ParseString returns is the keycode the first
\* token that is no modifier name resolves to (0 when that token does not
\* resolve, or there is none); later key tokens are ignored.
C1_FirstKeyTokenDecides ==
    call.op = "ParseString" =>
        call.ret.kc = IF KeyTokens(call.arg) = <<>> THEN 0
                      ELSE lookupString(keyMap, KeyTokens(call.arg)[1])

\* C1 as amended: the keycode ParseString returns is the keycode of the first
\* token that is no modifier name and resolves to a keycode other than 0; it
\* is 0 when there is no such token, and key tokens after that one are
\* ignored.
C1_FirstResolvingKeyTokenDecides ==
    call.op = "ParseString" =>
        call.ret.kc = IF ResolvingKeyTokens(keyMap, call.arg) = <<>> THEN 0
                      ELSE lookupString(keyMap, ResolvingKeyTokens(keyMap, call.arg)[1])

\* a string with two key tokens that resolve to different keycodes was parsed,
\* and one with an unresolved key token before a resolving one
C1_Witness ==
    /\ call.op = "ParseString"
    /\ Len(ResolvingKeyTokens(keyMap, call.arg)) >= 2
    /\ lookupString(keyMap, ResolvingKeyTokens(keyMap, call.arg)[1])
          # lookupString(keyMap, ResolvingKeyTokens(keyMap, call.arg)[2])
    /\ KeyTokens(call.arg)[1] # ResolvingKeyTokens(keyMap, call.arg)[1]
    /\ call.ret.kc # 0

\* C3 as claimed: a name is found by lookupString whenever its exact form, its
\* title-case form (first letter upper, rest lower), its lowercase form or its
\* uppercase form is in the symbol table, and not found (keycode 0) otherwise;
\* with only "Return" in the table "return", "RETURN" and "Return" give the
\* keycode of the Return symbol and "rEtUrN" gives 0.
C3_LookupFindsCaseVariants ==
    call.op = "lookupString" =>
        LET forms == {call.arg, TitleLoweringRest(call.arg), ToLower(call.arg),
                      ToUpper(call.arg)} \cap DOMAIN keysyms
        IN  /\ forms = {} => call.ret = 0
            /\ forms # {} => call.ret \in {keycodeGet(keyMap, keysyms[f]) : f \in forms}
            /\ call.arg \in {NameReturn, ToLower(NameReturn), ToUpper(NameReturn)}
                  => call.ret = keycodeGet(keyMap, XK_Return)

\* C9: the mask ParseString returns is the OR of the bits of the tokens that
\* are, up to case, one of shift, lock, control, mod1..mod5, any, and has no
\* other bit; so it depends on the set of modifier tokens alone, not on their
\* order, their repeats or the place of the key token.
C9_MaskIsOrOfModifierTokens ==
    call.op = "ParseString" => call.ret.mods = MaskOfTokens(call.arg)

\* a string with a repeated modifier, another modifier and a key token in
\* front of them was parsed
C9_Witness ==
    /\ call.op = "ParseString"
    /\ Len(call.arg) = 3
    /\ ~IsModifierToken(call.arg[1])
    /\ IsModifierToken(call.arg[2])
    /\ call.arg[3] = call.arg[2]
    /\ call.ret.mods = ModMask4

\* C10: ParseString warns exactly when the keycode it returns is 0, and then
\* it still returns the mask of the modifier tokens; it does not fail.
C10_WarnsIffNoKeycode ==
    call.op = "ParseString" =>
        /\ call.ret.kc # Panics
        /\ call.ret.warned <=> (call.ret.kc = 0)
        /\ call.ret.kc = 0 => call.ret.mods = MaskOfTokens(call.arg)

\* a string with modifiers and a key token that does not resolve was parsed:
\* warned, keycode 0, mask kept
C10_Witness ==
    /\ call.op = "ParseString"
    /\ KeyTokens(call.arg) # <<>>
    /\ call.ret.kc = 0
    /\ call.ret.warned
    /\ call.ret.mods = ModMaskShift + ModMaskControl

(***************************************************************************)
(* What the claims say about keycodeGet and modGet, stated over the tables *)
(* and not over the loops.                                                 *)
(***************************************************************************)
\* the symbol of keycode kc in column col of a keyboard mapping
Cell(km, kc, col) == km.Keysyms[(kc - MinKeycode) * km.KeysymsPerKeycode + col + 1]

\* the keycodes of the range that carry sym in some column
Carriers(km, sym) ==
    {kc \in MinKeycode..MaxKeycode :
        \E col \in 0..(km.KeysymsPerKeycode - 1) : Cell(km, kc, col) = sym}

Least(set) == CHOOSE x \in set : \A y \in set : x <= y

\* C4: keycodeGet returns the smallest keycode of [min,max] that has the
\* symbol in some column, and 0 exactly when no keycode of the range has it;
\* so the keycode found for the symbol of a cell (c, j) is some c' <= c that
\* carries the symbol too.
C4_KeycodeGetFindsLeastCarrier ==
    call.op = "keycodeGet" =>
        /\ Carriers(keyMap, call.arg) = {} <=> call.ret = 0
        /\ Carriers(keyMap, call.arg) # {} => call.ret = Least(Carriers(keyMap, call.arg))
        /\ \A c \in MinKeycode..MaxKeycode :
              \A j \in 0..(keyMap.KeysymsPerKeycode - 1) :
                 Cell(keyMap, c, j) = call.arg =>
                    /\ call.ret \in MinKeycode..c
                    /\ \E k \in 0..(keyMap.KeysymsPerKeycode - 1) :
                          Cell(keyMap, call.ret, k) = call.arg

\* keycodeGet was asked for a symbol that two keycodes carry, neither the
\* first of the range, the lower one not in its first column
C4_Witness ==
    /\ call.op = "keycodeGet"
    /\ call.arg # 0
    /\ Cardinality(Carriers(keyMap, call.arg)) >= 2
    /\ keyMap.KeysymsPerKeycode >= 2
    /\ Cell(keyMap, call.ret, 0) # call.arg
    /\ call.ret # MinKeycode

\* the slots (from 0) of a modifier mapping that hold keycode
SlotsOf(mm, keycode) == {i \in 0..(Len(mm.Keycodes) - 1) : mm.Keycodes[i + 1] = keycode}

\* the bit of the row of slot i
RowBit(mm, i) == modifiers[(i \div mm.KeycodesPerModifier) + 1]

\* C5 as claimed: modGet returns 0 for every keycode that is the value of no
\* bound (nonzero) slot of the ModifierMap, keycode 0 included.
C5_ModGetZeroWithoutModifier ==
    (call.op = "modGet" /\ call.ret # Pending) =>
        ((call.arg = 0 \/ SlotsOf(modMap, call.arg) = {}) => call.ret = 0)

C2_CacheTablesOfOneRefresh ==
    /\ (keyMap.gen # 0 /\ modMap.gen # 0) => keyMap.gen = modMap.gen
    /\ (call.op = "XModMap" /\ call.kmGen # 0) => call.kmGen = call.mm.gen

\* the calls whose mapsGet has run to its end
Fetched == {h \in Handlers : pc[h] \in {"fetched", "keyset", "done", "panicked"}}

\* C7: a refresh one of whose two queries fails ends in a panic and installs
\* neither table: it never reaches KeyMapSet or ModMapSet, and the cache keeps
\* the two tables of the refresh before it (none, for Initialize).
C7_FailedQueryInstallsNothing ==
    \A h \in Fetched :
        /\ (keyErr[h] \/ modErr[h]) <=> pc[h] = "panicked"
        /\ (keyErr[h] \/ modErr[h]) =>
              /\ keyMap.gen # h + 1
              /\ modMap.gen # h + 1
              /\ keyMap.gen = modMap.gen

\* a refresh after the first has panicked because the modifier query alone
\* failed, with the tables of the refresh before it still in the cache
C7_Witness ==
    \E h \in Handlers :
        /\ h >= 1
        /\ pc[h] = "panicked"
        /\ modErr[h]
        /\ ~keyErr[h]
        /\ keyMap.gen = h
        /\ modMap.gen = h

\* no call of Initialize or updateMaps is running and none has panicked
Quiescent == pc[0] = "done" /\ Running = {} /\ ~Crashed

\* the number of the last refresh that was started
LastRefresh == 1 + Cardinality({h \in Handlers : h >= 1 /\ pc[h] # "idle"})

\* C8: refreshes do not interleave: at most one call of Initialize or
\* updateMaps is between its start and its return, and once all refreshes
\* have finished both cached tables are the ones the last refresh fetched.
C8_RefreshesDoNotInterleave ==
    /\ Cardinality(Running) <= 1
    /\ Quiescent =>
          /\ keyMap = newKeymap[LastRefresh - 1]
          /\ modMap = newModmap[LastRefresh - 1]
          /\ keyMap.gen = LastRefresh
          /\ modMap.gen = LastRefresh

\* two notifications have been handled one after the other, their refreshes
\* fetched keyboard mappings that differ, and the cache holds the tables of
\* the second
C8_Witness ==
    /\ Quiescent
    /\ events = <<>>
    /\ pc[1] = "done"
    /\ pc[2] = "done"
    /\ newKeymap[1].Keysyms # newKeymap[2].Keysyms
    /\ keyMap = newKeymap[2]
    /\ modMap = newModmap[2]

(***************************************************************************)
(* What the claims say about a refresh that completes.                     *)
(***************************************************************************)
\* the calls of updateMaps that have installed a table
Installing == {h \in Handlers : h >= 1 /\ pc[h] \in {"keyset", "done"}}

\* what a table holds: the reply without the number of the refresh it is of
Content(t) == [f \in DOMAIN t \ {"gen"} |-> t[f]]

\* C11: a refresh that has completed, until the next one installs a table,
\* leaves in the cache exactly the two tables the server returned to it,
\* whole, whatever the cache held before and whatever request kind, first
\* keycode and count its notification carried; a refresh whose replies equal
\* those of the refresh before it leaves the content of the cache as that
\* refresh left it, and once every notification has been handled the cache
\* holds what the server holds.
C11_RefreshReplacesBothTables ==
    /\ \A h \in Handlers :
          (pc[h] = "done" /\ \A g \in Installing : g <= h) =>
              /\ keyMap = newKeymap[h]
              /\ modMap = newModmap[h]
              /\ Len(keyMap.Keysyms) = KeycodeRange * keyMap.KeysymsPerKeycode
              /\ Len(modMap.Keycodes) = 8 * modMap.KeycodesPerModifier
              /\ (h >= 1 /\ Content(newKeymap[h]) = Content(newKeymap[h - 1])
                        /\ Content(newModmap[h]) = Content(newModmap[h - 1])) =>
                    /\ Content(keyMap) = Content(newKeymap[h - 1])
                    /\ Content(modMap) = Content(newModmap[h - 1])
    /\ (Quiescent /\ events = <<>>) =>
          /\ Content(keyMap) = srvKeyMap
          /\ Content(modMap) = srvModMap

\* the refresh of the first notification replaced a keyboard mapping of
\* another content, and the refresh of the second, after a change of the
\* modifiers alone, fetched and installed the same keyboard mapping again
C11_Witness ==
    /\ Quiescent
    /\ events = <<>>
    /\ pc[2] = "done"
    /\ Content(newKeymap[0]) # Content(newKeymap[1])
    /\ Content(newKeymap[1]) = Content(newKeymap[2])
    /\ Content(newModmap[1]) # Content(newModmap[2])
    /\ keyMap = newKeymap[2]
    /\ modMap = newModmap[2]

\* C12: a notification that has been delivered to updateMaps leads to the
\* end of its refresh, by return or by panic; once a refresh has returned the
\* cache holds tables of that refresh or of a later one for good, so every
\* table a call of keycodeGet or of the dump reads from then on, at its start
\* or later, is of that refresh or of a later one.
C12_DeliveredNotificationRefreshes ==
    /\ \A h \in 1..MaxNotify :
          (pc[h] = "called") ~> (pc[h] \in {"done", "panicked"})
    /\ [](\A h \in Handlers :
            pc[h] = "done" => keyMap.gen >= h + 1 /\ modMap.gen >= h + 1)
    /\ [][\A h \in Handlers :
            pc[h] = "done" =>
                /\ (call.op = "none" /\ call'.op = "XModMap") =>
                      call'.mm.gen >= h + 1
                /\ (call.op = "XModMap" /\ call'.kmGen # call.kmGen) =>
                      call'.kmGen >= h + 1
                /\ (call.op = "none" /\ call'.op = "keycodeGetScan") =>
                      call'.km.gen >= h + 1
                /\ call.op = "keycodeGetScan" =>
                      \A g \in call'.cellGens \ call.cellGens : g >= h + 1]_vars

\* a call of keycodeGet that started after the second notification's refresh
\* had returned has found the symbol's keycode in the tables of that refresh
C12_Witness ==
    /\ pc[2] = "done"
    /\ call.op = "keycodeGetScan"
    /\ call.km.gen = 3
    /\ call.cellGens = {3}
    /\ call.ret \in MinKeycode..MaxKeycode

\* C13: once Initialize has returned, updateMaps is connected and both
\* cached tables are installed, the ones Initialize fetched until a later
\* refresh installs its own; so a dump, which starts after Initialize, reads
\* a modifier mapping that is not nil and never fails on a nil keyboard
\* mapping.
C13_InitializeLeavesReady ==
    /\ pc[0] = "done" =>
          /\ connected
          /\ keyMap.gen >= 1
          /\ modMap.gen >= 1
          /\ Installing = {} =>
                /\ keyMap = newKeymap[0]
                /\ modMap = newModmap[0]
                /\ ~keyErr[0]
                /\ ~modErr[0]
    /\ call.op = "XModMap" =>
          /\ pc[0] = "done"
          /\ call.mm.gen >= 1
          /\ call.ret = Panics => call.kmGen >= 1

\* Initialize has returned, no notification has been handled, and a dump has
\* printed a key of the tables Initialize installed
C13_Witness ==
    /\ pc[0] = "done"
    /\ \A h \in 1..MaxNotify : pc[h] = "idle"
    /\ connected
    /\ call.op = "XModMap"
    /\ call.mm = newModmap[0]
    /\ call.kmGen = 1
    /\ Len(call.out) >= 1

(***************************************************************************)
(* What the claims say about the dump.                                     *)
(***************************************************************************)
\* the symbol of keycode kc in column col, NoSymbol in a column the keyboard
\* mapping does not have
SymbolAt(km, kc, col) ==
    IF col < km.KeysymsPerKeycode THEN Cell(km, kc, col) ELSE 0

\* C14: XModMap never ends in a fatal error, whatever tables a refresh
\* installed, and what it prints for a bound keycode is the symbol of that
\* keycode in column 0, or in column 1 if column 0 holds NoSymbol.
C14_XModMapNeverFails ==
    call.op = "XModMap" =>
        /\ call.ret # Panics
        /\ \A i \in 1..Len(call.out) :
              call.out[i].ksym =
                  IF SymbolAt(keyMap, call.out[i].kc, 0) # 0
                  THEN SymbolAt(keyMap, call.out[i].kc, 0)
                  ELSE SymbolAt(keyMap, call.out[i].kc, 1)

(***************************************************************************)
(* What the claims say about the order of lookupString's case variants.    *)
(***************************************************************************)
\* the case variants of a name in the order claimed: exact, title case
\* (first letter upper, rest lower), lowercase, uppercase
ClaimedVariants(str) == <<str, TitleLoweringRest(str), ToLower(str), ToUpper(str)>>

\* the places of the claimed variants that are names of the symbol table
PresentVariants(str) == {i \in 1..4 : HasName(ClaimedVariants(str)[i])}

\* C15: when some case variant of a name is in the symbol table,
\* lookupString returns the keycode of the symbol of the first variant
\* present in the order exact, title case (first letter upper, rest lower),
\* lowercase, uppercase; a later variant counts only when every earlier one
\* is absent.
C15_LookupPrefersFirstVariantPresent ==
    (call.op = "lookupString" /\ PresentVariants(call.arg) # {}) =>
        call.ret =
            keycodeGet(keyMap,
                keysyms[ClaimedVariants(call.arg)[Least(PresentVariants(call.arg))]])

(***************************************************************************)
(* What the claims say about modGet's result and the order of the rows.    *)
(***************************************************************************)
\* C16: a call of modGet for a keycode that some slot of the ModifierMap
\* holds returns the bit of the row of the lowest such slot, one of the
\* eight rows Shift..Mod5 and never the Any bit.
C16_ModGetReturnsRowOfLowestSlot ==
    (call.op = "modGet" /\ SlotsOf(modMap, call.arg) # {}) ~>
        /\ call.op = "modGet"
        /\ SlotsOf(modMap, call.arg) # {}
        /\ call.ret = RowBit(modMap, Least(SlotsOf(modMap, call.arg)))
        /\ Least(SlotsOf(modMap, call.arg)) \div modMap.KeycodesPerModifier \in 0..7
        /\ call.ret # ModMaskAny

\* the rows of a modifier mapping that bind keycode
RowsOf(mm, keycode) ==
    {i \div mm.KeycodesPerModifier : i \in SlotsOf(mm, keycode)}

\* C17: the rows have one order on every path: when modGet returns for a
\* keycode bound in row r only, r is one of 0..7 and the name XModMap prints
\* row r under, parsed by ParseString as a token, gives exactly the bit
\* modGet returned, and no key.
C17_RowNameParsesToRowBit ==
    (call.op = "modGet" /\ call.arg # 0 /\ call.ret \notin {Pending, Panics}
        /\ Cardinality(RowsOf(modMap, call.arg)) = 1) =>
        \E r \in 0..7 :
            /\ RowsOf(modMap, call.arg) = {r}
            /\ r + 1 <= Len(nice)
            /\ ParseString(keyMap, nice[r + 1]).mods = call.ret
            /\ ParseString(keyMap, nice[r + 1]).kc = 0
            /\ modifiers[r + 1] = call.ret

\* modGet has returned the bit of Control for a keycode bound in the row
\* printed as "control" only, in its second slot
C17_Witness ==
    /\ call.op = "modGet"
    /\ call.arg = MaxKeycode
    /\ SlotsOf(modMap, call.arg) = {2 * modMap.KeycodesPerModifier + 1}
    /\ call.ret = ModMaskControl
    /\ ParseString(keyMap, nice[3]).mods = ModMaskControl

(***************************************************************************)
(* What the claims say about package xgraphics.                            *)
(***************************************************************************)
Area(icon) == icon.Width * icon.Height

\* C18: FindBestIcon returns nil for an empty list; otherwise it returns an
\* icon of the list, of the smallest area that is at least the preferred
\* area width*height when some icon has such an area, and of the largest
\* area when every icon is smaller than the preferred area.
C18_FindBestIconPicksBestArea ==
    call.op = "FindBestIcon" =>
        LET icons == call.arg.icons
            parea == call.arg.width * call.arg.height
            enough == {i \in 1..Len(icons) : Area(icons[i]) >= parea}
        IN  /\ Len(icons) = 0 => call.ret = NilIcon
            /\ Len(icons) > 0 =>
                  /\ call.ret \in 0..(Len(icons) - 1)
                  /\ enough # {} =>
                        /\ (call.ret + 1) \in enough
                        /\ \A i \in enough :
                              Area(icons[call.ret + 1]) <= Area(icons[i])
                  /\ enough = {} =>
                        \A i \in 1..Len(icons) :
                            Area(icons[i]) <= Area(icons[call.ret + 1])

\* FindBestIcon has returned the last of three icons, the smallest that is
\* big enough, after an icon that is too small and one that is bigger
C18_Witness ==
    /\ call.op = "FindBestIcon"
    /\ Len(call.arg.icons) = 3
    /\ call.ret = 2
    /\ Area(call.arg.icons[1]) < call.arg.width * call.arg.height
    /\ Area(call.arg.icons[2]) > Area(call.arg.icons[3])
    /\ Area(call.arg.icons[3]) >= call.arg.width * call.arg.height

(***************************************************************************)
(* What the claims say about a resolver call that overlaps a refresh.      *)
(***************************************************************************)
\* C19: a call of keycodeGet, overlapping a refresh or not, reads every cell
\* from the keyboard mapping it took its column bound from, the one cached
\* when it started, and so never fails on an index.
C19_KeycodeGetUsesOneGeneration ==
    call.op = "keycodeGetScan" =>
        /\ call.cellGens \subseteq {call.km.gen}
        /\ call.ret # Panics

\* C20: for an image whose row fits in one request, the PutImage requests
\* of a call of CreatePixmap that has returned carry every byte of the image
\* data once and in order: each holds a whole number of rows, as many as its
\* height says, and at most MAX_REQ_SIZE-28 bytes, the first starts at row 0,
\* each next one at the row after the last row of the one before, where it is
\* also drawn, and the last ends with the last row of the image.
C20_PutImageCarriesWholeImage ==
    (call.op = "CreatePixmap" /\ call.ret # Pending
        /\ call.arg.width * 4 <= MAX_REQ_SIZE - PutImageFixed) =>
        LET reqs == call.requests
            rowBytes == call.arg.width * 4
        IN  /\ Len(reqs) >= 1
            /\ reqs[1].from = 0
            /\ reqs[Len(reqs)].to = call.arg.width * call.arg.height * 4
            /\ \A k \in 1..Len(reqs) :
                  /\ reqs[k].to - reqs[k].from <= MAX_REQ_SIZE - PutImageFixed
                  /\ (reqs[k].to - reqs[k].from) % rowBytes = 0
                  /\ reqs[k].height * rowBytes = reqs[k].to - reqs[k].from
                  /\ reqs[k].width = call.arg.width
                  /\ reqs[k].dstY * rowBytes = reqs[k].from
                  /\ k > 1 => reqs[k].from = reqs[k - 1].to

(***************************************************************************)
(* What the claims say about the 8-bit arithmetic of modGet and mapsGet.   *)
(***************************************************************************)
\* C21: every call of modGet returns after finitely many iterations of its
\* loop, for every keycode and every ModifierMap of 8*KeycodesPerModifier
\* slots, and it returns 0 when no slot holds the keycode.
C21_ModGetTerminates ==
    /\ (call.op = "modGet") ~> (call.op = "modGet" /\ call.ret # Pending)
    /\ (call.op = "modGet" /\ SlotsOf(modMap, call.arg) = {}) ~>
          (call.op = "modGet" /\ call.ret = 0)

\* C22: for every range 0 <= min <= max <= 255 of the setup, the refresh
\* asks for max-min+1 keycodes, so the installed table has KeysymsPerKeycode
\* symbols for every keycode of [min, max], and no index
\* (keycode-min)*KeysymsPerKeycode+column of keycodeGet's scan lies outside it.
C22_RefreshCoversKeycodeRange ==
    call.op = "keycodeGetRange" =>
        /\ call.count = call.arg.max - call.arg.min + 1
        /\ call.len = (call.arg.max - call.arg.min + 1) * call.KeysymsPerKeycode
        /\ call.ret # Panics

====
